---- MODULE Spec2Model ----
(***************************************************************************)
(* Model of the credit scoring decision pipeline of cashi_project:         *)
(*   src/src/api/routes/credit.py  (validate_applicant, score_applicant,   *)
(*     apply_risk_override, generate_explanation, get_credit_score)        *)
(*   src/src/api/database.py       (save_prediction)                       *)
(*   src/src/api/schemas.py        (CreditScoreRequest)                    *)
(*                                                                         *)
(* Number representation.  Python floats are modelled by integers:         *)
(*   - money, months, counts, percentages (int_rate, dti, revol_util):     *)
(*     the integer value itself;                                           *)
(*   - installment_to_income, loan_to_income and probabilities: hundredths *)
(*     (0.40 is 40, 0.70 is 70);                                           *)
(*   - the probability returned by the model: thousandths (0.705 is 705).  *)
(* Text is modelled as a sequence of string tokens; a message built by an  *)
(* f-string is the sequence of its literal parts and formatted values.     *)
(***************************************************************************)
EXTENDS Integers, Sequences, FiniteSets, TLC

VARIABLES
    MODEL_LOADED,   \* credit.py:30/34, set once when the module is imported
    FACTOR,         \* credit.py:27, model_config["factor"]
    OFFSET,         \* credit.py:28, model_config["offset"]
    pc,             \* per request: the position of get_credit_score
    request,        \* per request: the CreditScoreRequest handed to the handler
    data,           \* per request: the dict of request.model_dump()
    errors,         \* per request: local errors of get_credit_score
    warnings,       \* per request: local warnings of get_credit_score
    credit_score,   \* per request: local credit_score
    default_prob,   \* per request: local default_prob (hundredths)
    risk_level,     \* per request: local risk_level
    explanation,    \* per request: local explanation
    model_out,      \* per request: what predict_proba returned (thousandths)
    trace,          \* per request: the calls and log records made so far
    response,       \* per request: what the caller receives
    db,             \* rows of table predictions, in commit order
    ov,             \* a direct call of apply_risk_override and its results
    va,             \* a direct call of validate_applicant and its result
    ex,             \* a direct call of generate_explanation and its result
    sa,             \* a direct call of score_applicant and its results
    st              \* a call of get_predictions_stats: position, dict stats

pipeVars == <<MODEL_LOADED, FACTOR, OFFSET, pc, request, data, errors, warnings,
              credit_score, default_prob, risk_level, explanation, model_out,
              trace, response, db>>
vars == <<MODEL_LOADED, FACTOR, OFFSET, pc, request, data, errors, warnings,
          credit_score, default_prob, risk_level, explanation, model_out,
          trace, response, db, ov, va, ex, sa, st>>

----------------------------------------------------------------------------
(* Bounds of the model *)

NumRequests == 2
MaxWarnings == 2

Reqs == 1..NumRequests

----------------------------------------------------------------------------
(* Generic helpers *)

Min(a, b) == IF a <= b THEN a ELSE b
Max(a, b) == IF a >= b THEN a ELSE b

Take(s, n) == SubSeq(s, 1, Min(n, Len(s)))

RECURSIVE Join(_, _)
Join(frags, sep) ==
    IF Len(frags) = 0 THEN <<>>
    ELSE IF Len(frags) = 1 THEN frags[1]
    ELSE frags[1] \o <<sep>> \o Join(Tail(frags), sep)

RECURSIVE Interleave(_, _)
Interleave(words, sep) ==
    IF Len(words) = 0 THEN <<>>
    ELSE IF Len(words) = 1 THEN <<words[1]>>
    ELSE <<words[1], sep>> \o Interleave(Tail(words), sep)

Pad3(n) ==
    IF n < 10 THEN "00" \o ToString(n)
    ELSE IF n < 100 THEN "0" \o ToString(n)
    ELSE ToString(n)

RECURSIVE Grouped(_)
Grouped(n) ==
    IF n < 1000 THEN ToString(n)
    ELSE Grouped(n \div 1000) \o "," \o Pad3(n % 1000)

FormatThousands(v) == IF v < 0 THEN "-" \o Grouped(0 - v) ELSE Grouped(v)

----------------------------------------------------------------------------
(* The applicant record *)

FieldOrder ==
    <<"grade_numeric", "int_rate", "inq_last_6mths", "revol_util",
      "installment", "installment_to_income", "loan_to_income", "dti",
      "open_acc", "loan_amnt", "annual_inc", "credit_history_months">>

SchemaOK(r) ==
    /\ r.grade_numeric >= 1 /\ r.grade_numeric <= 7
    /\ r.int_rate >= 0 /\ r.int_rate <= 35
    /\ \A i \in 1..Len(FieldOrder) : r[FieldOrder[i]] >= 0

----------------------------------------------------------------------------
(* validate_applicant *)

W_LOAN_TO_INCOME == "Loan-to-income ratio exceeds 50%"
W_MONTHLY_PAYMENT == "Monthly payment exceeds 40% of monthly income"
W_DTI == "Debt-to-income ratio exceeds 60%"
W_CREDIT_HISTORY == "Credit history less than 1 year"
W_REVOL_UTIL == "Revolving utilization exceeds 100%"

RECURSIVE NegativeErrors(_, _)
NegativeErrors(d, i) ==
    IF i > Len(FieldOrder) THEN <<>>
    ELSE (IF d[FieldOrder[i]] < 0
            THEN << <<FieldOrder[i], " cannot be negative">> >>
            ELSE <<>>)
         \o NegativeErrors(d, i + 1)

\* the loan ceiling itself rejected
HardErrors_CeilingRejected(d) ==
    (IF d.annual_inc < 20000
       THEN << <<"Income $", FormatThousands(d.annual_inc),
                 " below minimum threshold ($20,000)">> >>
       ELSE <<>>)
    \o (IF d.loan_amnt >= 40000
          THEN << <<"Loan amount $", FormatThousands(d.loan_amnt),
                    " exceeds maximum ($40,000)">> >>
          ELSE <<>>)
    \o (IF d.int_rate < 5 \/ d.int_rate > 31
          THEN << <<"Interest rate ", ToString(d.int_rate),
                    "% outside valid range (5-31%)">> >>
          ELSE <<>>)
    \o (IF d.grade_numeric < 1 \/ d.grade_numeric > 7
          THEN << <<"Grade ", ToString(d.grade_numeric),
                    " invalid (must be 1-7)">> >>
          ELSE <<>>)

\* the income floor itself rejected
HardErrors_FloorRejected(d) ==
    (IF d.annual_inc <= 20000
       THEN << <<"Income $", FormatThousands(d.annual_inc),
                 " below minimum threshold ($20,000)">> >>
       ELSE <<>>)
    \o (IF d.loan_amnt > 40000
          THEN << <<"Loan amount $", FormatThousands(d.loan_amnt),
                    " exceeds maximum ($40,000)">> >>
          ELSE <<>>)
    \o (IF d.int_rate < 5 \/ d.int_rate > 31
          THEN << <<"Interest rate ", ToString(d.int_rate),
                    "% outside valid range (5-31%)">> >>
          ELSE <<>>)
    \o (IF d.grade_numeric < 1 \/ d.grade_numeric > 7
          THEN << <<"Grade ", ToString(d.grade_numeric),
                    " invalid (must be 1-7)">> >>
          ELSE <<>>)

HardErrors(d) ==
    (IF d.annual_inc < 20000
       THEN << <<"Income $", FormatThousands(d.annual_inc),
                 " below minimum threshold ($20,000)">> >>
       ELSE <<>>)
    \o (IF d.loan_amnt > 40000
          THEN << <<"Loan amount $", FormatThousands(d.loan_amnt),
                    " exceeds maximum ($40,000)">> >>
          ELSE <<>>)
    \o (IF d.int_rate < 5 \/ d.int_rate > 31
          THEN << <<"Interest rate ", ToString(d.int_rate),
                    "% outside valid range (5-31%)">> >>
          ELSE <<>>)
    \o (IF d.grade_numeric < 1 \/ d.grade_numeric > 7
          THEN << <<"Grade ", ToString(d.grade_numeric),
                    " invalid (must be 1-7)">> >>
          ELSE <<>>)

\* data["loan_amnt"] / (data["annual_inc"] + 1): Python raises
\* ZeroDivisionError when the divisor is 0.
RatioRaises(d) == d.annual_inc + 1 = 0

\* the ratio read from the loan_to_income field of the record
RatioExceedsHalf_Field(d) == d.loan_to_income > 50

\* loan_amnt / (annual_inc + 1) > 0.5, for a divisor that is not 0
RatioExceedsHalf(d) ==
    IF d.annual_inc + 1 > 0
      THEN 2 * d.loan_amnt > d.annual_inc + 1
      ELSE 2 * d.loan_amnt < d.annual_inc + 1

\* the credit-history warning never raised
WarningsOf_NoHistory(d) ==
    (IF RatioExceedsHalf(d)
       THEN <<W_LOAN_TO_INCOME>> ELSE <<>>)
    \o (IF d.installment_to_income > 40
          THEN <<W_MONTHLY_PAYMENT>> ELSE <<>>)
    \o (IF d.dti > 60 THEN <<W_DTI>> ELSE <<>>)
    \o (IF d.revol_util > 100 THEN <<W_REVOL_UTIL>> ELSE <<>>)

WarningsOf(d) ==
    (IF RatioExceedsHalf(d)
       THEN <<W_LOAN_TO_INCOME>> ELSE <<>>)
    \o (IF d.installment_to_income > 40
          THEN <<W_MONTHLY_PAYMENT>> ELSE <<>>)
    \o (IF d.dti > 60 THEN <<W_DTI>> ELSE <<>>)
    \o (IF d.credit_history_months < 12
          THEN <<W_CREDIT_HISTORY>> ELSE <<>>)
    \o (IF d.revol_util > 100 THEN <<W_REVOL_UTIL>> ELSE <<>>)

\* raised: the call ends in an exception instead of returning the pair
validate_applicant(d) ==
    IF RatioRaises(d)
      THEN [raised |-> TRUE, errors |-> <<>>, warnings |-> <<>>]
      ELSE [raised |-> FALSE,
            errors |-> HardErrors(d) \o NegativeErrors(d, 1),
            warnings |-> WarningsOf(d)]

----------------------------------------------------------------------------
(* apply_risk_override *)

\* the utilization warning listed among the triggers
high_risk_warnings_WithRevol ==
    {W_LOAN_TO_INCOME, W_MONTHLY_PAYMENT, W_DTI, W_CREDIT_HISTORY, W_REVOL_UTIL}

high_risk_warnings ==
    {W_LOAN_TO_INCOME, W_MONTHLY_PAYMENT, W_DTI, W_CREDIT_HISTORY}

\* only the first warning looked at
risk_override_FirstOnly(ws) == Len(ws) > 0 /\ ws[1] \in high_risk_warnings

risk_override(ws) == \E i \in 1..Len(ws) : ws[i] \in high_risk_warnings

\* a forced score instead of a cap
OverrideScore_Forced(score, ws) ==
    IF risk_override(ws) THEN 450 ELSE score

OverrideScore(score, ws) ==
    IF risk_override(ws) THEN Min(score, 450) ELSE score

\* a surcharge instead of a floor
OverrideProb_Surcharge(prob, ws) ==
    IF risk_override(ws) THEN Min(prob + 70, 100) ELSE prob

OverrideProb(prob, ws) ==
    IF risk_override(ws) THEN Max(prob, 70) ELSE prob

RiskLevelOf(score) ==
    IF score >= 580 THEN "Low"
    ELSE IF score >= 480 THEN "Medium"
    ELSE "High"

\* the tier taken from the score as it was before the override
apply_risk_override_TierFirst(score, prob, ws) ==
    [score |-> OverrideScore(score, ws),
     prob |-> OverrideProb(prob, ws),
     risk_level |-> RiskLevelOf(score)]

apply_risk_override(score, prob, ws) ==
    [score |-> OverrideScore(score, ws),
     prob |-> OverrideProb(prob, ws),
     risk_level |-> RiskLevelOf(OverrideScore(score, ws))]

----------------------------------------------------------------------------
(* score_applicant *)

\* The probabilities (thousandths) the model collaborator may return.
ModelProbs == {50, 705, 1000}

\* The (factor, offset) pairs model_config.pkl may hold.
ModelConfigs == {[factor |-> 29, offset |-> 487], [factor |-> 20, offset |-> 500]}

\* 1000 * ln(p / (1 - p)), rounded, for the probabilities of ModelProbs
LogOddsMilli(p) ==
    CASE p = 4 -> 0 - 5517
      [] p = 10 -> 0 - 4595
      [] p = 50 -> 0 - 2944
      [] p = 300 -> 0 - 847
      [] p = 700 -> 847
      [] p = 705 -> 871
      [] p = 950 -> 2944
      [] p = 996 -> 5517

\* Python round(): to the nearest integer, ties to the even one
RoundDiv(n, d) ==
    LET q == n \div d
        r == n % d
    IN  IF 2 * r < d THEN q
        ELSE IF 2 * r > d THEN q + 1
        ELSE IF q % 2 = 0 THEN q ELSE q + 1

\* lines 128-129: the dict handed in is changed in place
\* the utilization handed to the model as it came
CapRevolUtil_None(d) == d

\* lines 128-129
CapRevolUtil(d) ==
    IF d.revol_util > 100 THEN [d EXCEPT !.revol_util = 100] ELSE d

\* the score computed from the probability rounded to 2 decimals
ScoreOf_FromRounded(p, factor, offset) ==
    IF 0 < RoundDiv(p, 10) /\ RoundDiv(p, 10) < 100
      THEN RoundDiv(offset * 1000
                      - factor * LogOddsMilli(10 * RoundDiv(p, 10)), 1000)
      ELSE offset

ScoreOf(p, factor, offset) ==
    IF 0 < p /\ p < 1000
      THEN RoundDiv(offset * 1000 - factor * LogOddsMilli(p), 1000)
      ELSE offset

\* a score that depends on the rows already in the store
score_applicant_Stateful(d, p, factor, offset) ==
    [data |-> CapRevolUtil(d),
     score |-> ScoreOf(p, factor, offset) - Len(db),
     prob |-> RoundDiv(p, 10)]

\* p: what credit_model.predict_proba returns for the capped features
score_applicant(d, p, factor, offset) ==
    [data |-> CapRevolUtil(d),
     score |-> ScoreOf(p, factor, offset),
     prob |-> RoundDiv(p, 10)]

----------------------------------------------------------------------------
(* generate_explanation *)

\* Python's  sub in warning, for the two substrings the code looks for
Contains(w, sub) ==
    CASE sub = "Loan-to-income" -> w = W_LOAN_TO_INCOME
      [] sub = "Monthly payment exceeds" -> w = W_MONTHLY_PAYMENT
      [] OTHER -> FALSE

\* the tier name used as the lead of a Medium decision
LeadOf_TierName(level) ==
    IF level = "Low" THEN "Low default risk"
    ELSE IF level = "Medium" THEN "Medium default risk"
    ELSE "High default risk"

LeadOf(level) ==
    IF level = "Low" THEN "Low default risk"
    ELSE IF level = "Medium" THEN "Moderate default risk"
    ELSE "High default risk"

Positives(d) ==
    (IF d.credit_history_months >= 120 THEN <<"long credit history">>
     ELSE IF d.credit_history_months >= 60
       THEN <<"established credit history">>
     ELSE <<>>)
    \o (IF d.int_rate < 14 THEN <<"favorable interest rate">> ELSE <<>>)
    \o (IF d.dti < 20 THEN <<"low debt-to-income ratio">> ELSE <<>>)
    \o (IF d.revol_util < 30 THEN <<"low credit utilization">> ELSE <<>>)
    \o (IF d.inq_last_6mths = 0
          THEN <<"no recent credit inquiries">> ELSE <<>>)
    \o (IF d.annual_inc >= 100000 THEN <<"strong income">>
        ELSE IF d.annual_inc >= 60000 THEN <<"stable income">>
        ELSE <<>>)

\* the warnings left out of the negatives
WarningNegatives_None(ws) == <<>>

RECURSIVE WarningNegatives(_)
WarningNegatives(ws) ==
    IF Len(ws) = 0 THEN <<>>
    ELSE (IF Contains(Head(ws), "Loan-to-income")
            THEN <<"loan amount high relative to income">>
          ELSE IF Contains(Head(ws), "Monthly payment exceeds")
            THEN <<"monthly payment burden is significant">>
          ELSE <<>>)
         \o WarningNegatives(Tail(ws))

\* the grade looked at before the other negative factors
Negatives_GradeFirst(d, ws) ==
    (IF d.grade_numeric >= 5 THEN <<"subprime credit grade">> ELSE <<>>)
    \o (IF d.int_rate >= 20
          THEN <<"high interest rate indicates elevated risk profile">>
          ELSE <<>>)
    \o (IF d.revol_util >= 70 THEN <<"high credit utilization">> ELSE <<>>)
    \o (IF d.dti >= 35 THEN <<"elevated debt burden">> ELSE <<>>)
    \o (IF d.inq_last_6mths >= 3
          THEN <<"multiple recent credit inquiries">> ELSE <<>>)
    \o (IF d.credit_history_months < 36
          THEN <<"limited credit history">> ELSE <<>>)
    \o WarningNegatives(ws)

\* the warning-derived negatives put before the negatives of the record
Negatives_WarningsFirst(d, ws) ==
    WarningNegatives(ws)
    \o (IF d.int_rate >= 20
          THEN <<"high interest rate indicates elevated risk profile">>
          ELSE <<>>)
    \o (IF d.revol_util >= 70 THEN <<"high credit utilization">> ELSE <<>>)
    \o (IF d.dti >= 35 THEN <<"elevated debt burden">> ELSE <<>>)
    \o (IF d.inq_last_6mths >= 3
          THEN <<"multiple recent credit inquiries">> ELSE <<>>)
    \o (IF d.credit_history_months < 36
          THEN <<"limited credit history">> ELSE <<>>)
    \o (IF d.grade_numeric >= 5 THEN <<"subprime credit grade">> ELSE <<>>)

Negatives(d, ws) ==
    (IF d.int_rate >= 20
       THEN <<"high interest rate indicates elevated risk profile">>
       ELSE <<>>)
    \o (IF d.revol_util >= 70 THEN <<"high credit utilization">> ELSE <<>>)
    \o (IF d.dti >= 35 THEN <<"elevated debt burden">> ELSE <<>>)
    \o (IF d.inq_last_6mths >= 3
          THEN <<"multiple recent credit inquiries">> ELSE <<>>)
    \o (IF d.credit_history_months < 36
          THEN <<"limited credit history">> ELSE <<>>)
    \o (IF d.grade_numeric >= 5 THEN <<"subprime credit grade">> ELSE <<>>)
    \o WarningNegatives(ws)

\* one cap of three for the negatives, whatever the branch
Fragments_OneCap(d, level, ws) ==
    LET positives == Positives(d)
        negatives == Negatives(d, ws)
    IN  << <<LeadOf(level)>> >>
        \o (IF Len(positives) > 0
              THEN << <<"due to ">> \o Interleave(Take(positives, 3), ", ") >>
              ELSE <<>>)
        \o (IF Len(negatives) > 0
              THEN IF Len(positives) > 0
                     THEN << <<"however, ">>
                             \o Interleave(Take(negatives, 3), ", ") >>
                     ELSE << <<"due to ">>
                             \o Interleave(Take(negatives, 3), ", ") >>
              ELSE <<>>)

\* the list explanations, each fragment a sequence of tokens
Fragments(d, level, ws) ==
    LET positives == Positives(d)
        negatives == Negatives(d, ws)
    IN  << <<LeadOf(level)>> >>
        \o (IF Len(positives) > 0
              THEN << <<"due to ">> \o Interleave(Take(positives, 3), ", ") >>
              ELSE <<>>)
        \o (IF Len(negatives) > 0
              THEN IF Len(positives) > 0
                     THEN << <<"however, ">>
                             \o Interleave(Take(negatives, 2), ", ") >>
                     ELSE << <<"due to ">>
                             \o Interleave(Take(negatives, 3), ", ") >>
              ELSE <<>>)

generate_explanation(d, level, ws) ==
    Join(Fragments(d, level, ws), "; ") \o <<".">>

----------------------------------------------------------------------------
(* get_credit_score: one handler instance per request *)

AppIds == {"app_001", "app_002"}

\* The request bodies that reach the handler (they satisfy the schema).
Requests ==
    {r \in [applicant_id : AppIds,
            grade_numeric : {3},
            int_rate : {2, 13},
            inq_last_6mths : {0},
            revol_util : {25},
            installment : {350},
            installment_to_income : {7},
            loan_to_income : {30},
            dti : {15},
            open_acc : {8},
            loan_amnt : {15000},
            annual_inc : {15000, 50000},
            credit_history_months : {120}] : SchemaOK(r)}

NoData == [applicant_id |-> "", grade_numeric |-> 0, int_rate |-> 0,
           inq_last_6mths |-> 0, revol_util |-> 0, installment |-> 0,
           installment_to_income |-> 0, loan_to_income |-> 0, dti |-> 0,
           open_acc |-> 0, loan_amnt |-> 0, annual_inc |-> 0,
           credit_history_months |-> 0]

NoDecision == [applicant_id |-> "", credit_score |-> 0,
               default_probability |-> 0, risk_level |-> "",
               explanation |-> <<>>]

NoResponse == [status |-> 0, errors |-> <<>>, decision |-> NoDecision]

\* the availability check left out
ModelUnavailable_Unchecked == FALSE

\* line 238: if not MODEL_LOADED
ModelUnavailable == ~MODEL_LOADED

\* a single error tolerated
Rejects_Several(errs) == Len(errs) > 1

\* line 251: if errors
Rejects(errs) == Len(errs) > 0

\* only the first error surfaced
RejectionDetail_First(errs) == Take(errs, 1)

\* lines 253-259: the detail of the 400 carries the list errors
RejectionDetail(errs) == errs

\* the explanation generated before the override is applied
NextStep_ExplainFirst(step) ==
    CASE step = "score" -> "explain"
      [] step = "explain" -> "override"
      [] step = "override" -> "measure"
      [] step = "measure" -> "persist"
      [] step = "persist" -> "respond"
      [] step = "respond" -> "done"

\* the response time taken after the save
NextStep_MeasureLast(step) ==
    CASE step = "score" -> "override"
      [] step = "override" -> "explain"
      [] step = "explain" -> "persist"
      [] step = "persist" -> "measure"
      [] step = "measure" -> "respond"
      [] step = "respond" -> "done"

\* the order of the statements of lines 261-318
NextStep(step) ==
    CASE step = "score" -> "override"
      [] step = "override" -> "explain"
      [] step = "explain" -> "measure"
      [] step = "measure" -> "persist"
      [] step = "persist" -> "respond"
      [] step = "respond" -> "done"

\* the exception of save_prediction left to propagate
SaveFailureOutcome_Propagate(r) ==
    [pc |-> "done", response |-> [NoResponse EXCEPT !.status = 500]]

\* the save attempted again after a failure
SaveFailureOutcome_Retry(r) ==
    [pc |-> "persist", response |-> response[r]]

\* lines 309-310: the exception of save_prediction is logged and dropped;
\* the handler goes on to build the response
SaveFailureOutcome(r) ==
    [pc |-> NextStep("persist"), response |-> response[r]]

\* CreditScoreResponse(...) of lines 312-318
DecisionOf(r) ==
    [applicant_id |-> data[r].applicant_id,
     credit_score |-> credit_score[r],
     default_probability |-> default_prob[r],
     risk_level |-> risk_level[r],
     explanation |-> explanation[r]]

\* the score taken from a variable shared by the handlers
RowOf_SharedScore(r) ==
    [applicant_id |-> data[r].applicant_id,
     credit_score |-> credit_score[1],
     default_probability |-> default_prob[r],
     risk_level |-> risk_level[r],
     explanation |-> explanation[r],
     input |-> data[r]]

\* the score saved as the scorer returned it, before the override
RowOf_ScorerScore(r) ==
    [applicant_id |-> data[r].applicant_id,
     credit_score |-> ScoreOf(model_out[r], FACTOR, OFFSET),
     default_probability |-> default_prob[r],
     risk_level |-> risk_level[r],
     explanation |-> explanation[r],
     input |-> data[r]]

\* the row save_prediction inserts (request_ip and response_time_ms left out)
RowOf(r) ==
    [applicant_id |-> data[r].applicant_id,
     credit_score |-> credit_score[r],
     default_probability |-> default_prob[r],
     risk_level |-> risk_level[r],
     explanation |-> explanation[r],
     input |-> data[r]]

\* lines 22-39: the artifacts load, or MODEL_LOADED is False and the rest None
InitPipeline ==
    /\ MODEL_LOADED \in BOOLEAN
    /\ IF MODEL_LOADED
         THEN \E c \in ModelConfigs : FACTOR = c.factor /\ OFFSET = c.offset
         ELSE FACTOR = 0 /\ OFFSET = 0
    /\ pc = [r \in Reqs |-> "idle"]
    /\ request = [r \in Reqs |-> NoData]
    /\ data = [r \in Reqs |-> NoData]
    /\ errors = [r \in Reqs |-> <<>>]
    /\ warnings = [r \in Reqs |-> <<>>]
    /\ credit_score = [r \in Reqs |-> 0]
    /\ default_prob = [r \in Reqs |-> 0]
    /\ risk_level = [r \in Reqs |-> ""]
    /\ explanation = [r \in Reqs |-> <<>>]
    /\ model_out = [r \in Reqs |-> 0 - 1]
    /\ trace = [r \in Reqs |-> <<>>]
    /\ response = [r \in Reqs |-> NoResponse]
    /\ db = <<>>

\* lines 236-245: the request arrives, the model check, model_dump
ReceiveFrom(r, bodies) ==
    /\ pc[r] = "idle"
    /\ \E req \in bodies :
         /\ request' = [request EXCEPT ![r] = req]
         /\ IF ModelUnavailable
              THEN /\ pc' = [pc EXCEPT ![r] = "done"]
                   /\ trace' = [trace EXCEPT ![r] =
                                   <<"start_time", "log_error_model", "raise">>]
                   /\ response' = [response EXCEPT ![r] =
                                      [NoResponse EXCEPT !.status = 503]]
                   /\ data' = data
              ELSE /\ pc' = [pc EXCEPT ![r] = "validate"]
                   /\ trace' = [trace EXCEPT ![r] =
                                   <<"start_time", "model_dump">>]
                   /\ data' = [data EXCEPT ![r] = req]
                   /\ response' = response
    /\ UNCHANGED <<MODEL_LOADED, FACTOR, OFFSET, errors, warnings, credit_score,
                   default_prob, risk_level, explanation, model_out, db, ov, va, ex,
                   sa, st>>

Receive(r) == ReceiveFrom(r, Requests)

\* lines 247-259: validate_applicant, and the rejection on errors
Validate(r) ==
    /\ pc[r] = "validate"
    /\ LET v == validate_applicant(data[r]) IN
         IF v.raised
           THEN /\ pc' = [pc EXCEPT ![r] = "done"]
                /\ trace' = [trace EXCEPT ![r] =
                                @ \o <<"validate_applicant", "raise">>]
                /\ response' = [response EXCEPT ![r] =
                                   [NoResponse EXCEPT !.status = 500]]
                /\ UNCHANGED <<errors, warnings>>
           ELSE /\ errors' = [errors EXCEPT ![r] = v.errors]
                /\ warnings' = [warnings EXCEPT ![r] = v.warnings]
                /\ IF Rejects(v.errors)
                     THEN /\ pc' = [pc EXCEPT ![r] = "done"]
                          /\ trace' = [trace EXCEPT ![r] =
                                @ \o <<"validate_applicant",
                                       "log_warning_rejected", "raise">>]
                          /\ response' = [response EXCEPT ![r] =
                                [status |-> 400,
                                 errors |-> RejectionDetail(v.errors),
                                 decision |-> NoDecision]]
                     ELSE /\ pc' = [pc EXCEPT ![r] = "score"]
                          /\ trace' = [trace EXCEPT ![r] =
                                          @ \o <<"validate_applicant">>]
                          /\ response' = response
    /\ UNCHANGED <<MODEL_LOADED, FACTOR, OFFSET, request, data, credit_score,
                   default_prob, risk_level, explanation, model_out, db, ov, va, ex,
                   sa, st>>

\* line 262: score_applicant
Score(r) ==
    /\ pc[r] = "score"
    /\ \E p \in ModelProbs :
         LET s == score_applicant(data[r], p, FACTOR, OFFSET) IN
           /\ data' = [data EXCEPT ![r] = s.data]
           /\ credit_score' = [credit_score EXCEPT ![r] = s.score]
           /\ default_prob' = [default_prob EXCEPT ![r] = s.prob]
           /\ model_out' = [model_out EXCEPT ![r] = p]
    /\ pc' = [pc EXCEPT ![r] = NextStep("score")]
    /\ trace' = [trace EXCEPT ![r] = @ \o <<"score_applicant">>]
    /\ UNCHANGED <<MODEL_LOADED, FACTOR, OFFSET, request, errors, warnings,
                   risk_level, explanation, response, db, ov, va, ex,
                   sa, st>>

\* lines 265-267: apply_risk_override
Override(r) ==
    /\ pc[r] = "override"
    /\ LET o == apply_risk_override(credit_score[r], default_prob[r],
                                    warnings[r]) IN
           /\ credit_score' = [credit_score EXCEPT ![r] = o.score]
           /\ default_prob' = [default_prob EXCEPT ![r] = o.prob]
           /\ risk_level' = [risk_level EXCEPT ![r] = o.risk_level]
    /\ pc' = [pc EXCEPT ![r] = NextStep("override")]
    /\ trace' = [trace EXCEPT ![r] = @ \o <<"apply_risk_override">>]
    /\ UNCHANGED <<MODEL_LOADED, FACTOR, OFFSET, request, data, errors,
                   warnings, explanation, model_out, response, db, ov, va, ex,
                   sa, st>>

\* line 270: generate_explanation
Explain(r) ==
    /\ pc[r] = "explain"
    /\ explanation' = [explanation EXCEPT ![r] =
                          generate_explanation(data[r], risk_level[r],
                                               warnings[r])]
    /\ pc' = [pc EXCEPT ![r] = NextStep("explain")]
    /\ trace' = [trace EXCEPT ![r] = @ \o <<"generate_explanation">>]
    /\ UNCHANGED <<MODEL_LOADED, FACTOR, OFFSET, request, data, errors,
                   warnings, credit_score, default_prob, risk_level,
                   model_out, response, db, ov, va, ex,
                   sa, st>>

\* lines 273-295: the response time is taken, the prediction is logged
Measure(r) ==
    /\ pc[r] = "measure"
    /\ pc' = [pc EXCEPT ![r] = NextStep("measure")]
    /\ trace' = [trace EXCEPT ![r] = @ \o <<"response_time", "log_prediction">>]
    /\ UNCHANGED <<MODEL_LOADED, FACTOR, OFFSET, request, data, errors,
                   warnings, credit_score, default_prob, risk_level,
                   explanation, model_out, response, db, ov, va, ex,
                   sa, st>>

\* lines 298-310 of credit.py, lines 79-104 of database.py: the row is
\* committed, or sqlite3 raises and the handler logs the exception
Persist(r) ==
    /\ pc[r] = "persist"
    /\ \E ok \in BOOLEAN :
         IF ok
           THEN /\ db' = Append(db, RowOf(r))
                /\ trace' = [trace EXCEPT ![r] = @ \o <<"save_prediction">>]
                /\ pc' = [pc EXCEPT ![r] = NextStep("persist")]
                /\ response' = response
           ELSE /\ db' = db
                /\ trace' = [trace EXCEPT ![r] =
                                @ \o <<"save_prediction", "log_error_save">>]
                /\ pc' = [pc EXCEPT ![r] = SaveFailureOutcome(r).pc]
                /\ response' = [response EXCEPT ![r] =
                                   SaveFailureOutcome(r).response]
    /\ UNCHANGED <<MODEL_LOADED, FACTOR, OFFSET, request, data, errors,
                   warnings, credit_score, default_prob, risk_level,
                   explanation, model_out, ov, va, ex,
                   sa, st>>

\* lines 312-318: the response is built and returned
Respond(r) ==
    /\ pc[r] = "respond"
    /\ response' = [response EXCEPT ![r] =
                       [status |-> 200, errors |-> <<>>,
                        decision |-> DecisionOf(r)]]
    /\ pc' = [pc EXCEPT ![r] = NextStep("respond")]
    /\ trace' = [trace EXCEPT ![r] = @ \o <<"return">>]
    /\ UNCHANGED <<MODEL_LOADED, FACTOR, OFFSET, request, data, errors,
                   warnings, credit_score, default_prob, risk_level,
                   explanation, model_out, db, ov, va, ex,
                   sa, st>>

NoResult == [score |-> 0, prob |-> 0, risk_level |-> ""]

NoOverrideCall == [stage |-> "off", score |-> 0, prob |-> 0, warnings |-> <<>>,
                   first |-> NoResult, second |-> NoResult]

NoResultOfValidate == [raised |-> FALSE, errors |-> <<>>, warnings |-> <<>>]

NoValidateCall == [stage |-> "off", data |-> NoData,
                   result |-> NoResultOfValidate]

NoExplainCall == [stage |-> "off", data |-> NoData, level |-> "",
                  warnings |-> <<>>, result |-> <<>>]

NoScore == [data |-> NoData, score |-> 0, prob |-> 0]

NoScoreCall == [stage |-> "off", data |-> NoData, p |-> 0,
                first |-> NoScore, second |-> NoScore]

NoStatsCall == [pc |-> "off", total_predictions |-> 0,
                by_risk_level |-> [Low |-> 0, Medium |-> 0, High |-> 0],
                avg_credit_score |-> 0, last_24h |-> 0]

Init ==
    /\ InitPipeline
    /\ ov = NoOverrideCall /\ va = NoValidateCall /\ ex = NoExplainCall
    /\ sa = NoScoreCall /\ st = NoStatsCall

Next ==
    \E r \in Reqs :
        \/ Receive(r)
        \/ Validate(r)
        \/ Score(r)
        \/ Override(r)
        \/ Explain(r)
        \/ Measure(r)
        \/ Persist(r)
        \/ Respond(r)

Spec == Init /\ [][Next]_vars

----------------------------------------------------------------------------
(* get_credit_score on one request drawn from a wider set of bodies: each
   trigger condition of the validator on its own, a utilization above 100,
   records with and without positive and negative factors *)

WideRequests ==
    {r \in [applicant_id : AppIds,
            grade_numeric : {3, 5},
            int_rate : {13, 22},
            inq_last_6mths : {0, 4},
            revol_util : {25, 120},
            installment : {350},
            installment_to_income : {7, 45},
            loan_to_income : {30},
            dti : {15, 65},
            open_acc : {8},
            loan_amnt : {15000, 30000},
            annual_inc : {15000, 50000, 100000},
            credit_history_months : {6, 120}] : SchemaOK(r)}

ReceiveWide(r) == ReceiveFrom(r, WideRequests)

NextWide ==
    \/ ReceiveWide(1)
    \/ Validate(1)
    \/ Score(1)
    \/ Override(1)
    \/ Explain(1)
    \/ Measure(1)
    \/ Persist(1)
    \/ Respond(1)

SpecWide == Init /\ [][NextWide]_vars

----------------------------------------------------------------------------
(* Direct calls of apply_risk_override, as the unit tests make them *)

OvScores == {300, 400, 449, 450, 451, 479, 480, 520, 579, 580, 600}
OvProbs == {5, 40, 69, 70, 71, 80}
OvMessages ==
    {W_LOAN_TO_INCOME, W_MONTHLY_PAYMENT, W_DTI, W_CREDIT_HISTORY,
     W_REVOL_UTIL, "Manual review requested"}

RECURSIVE SeqsUpTo(_, _)
SeqsUpTo(S, n) ==
    IF n = 0 THEN {<<>>}
    ELSE SeqsUpTo(S, n - 1)
         \cup {Append(q, x) : q \in {t \in SeqsUpTo(S, n - 1) : Len(t) = n - 1},
                              x \in S}

OvWarnings == SeqsUpTo(OvMessages, MaxWarnings)

InitOverride ==
    /\ InitPipeline
    /\ MODEL_LOADED
    /\ \E sc \in OvScores, pr \in OvProbs, ws \in OvWarnings :
         ov = [NoOverrideCall EXCEPT !.stage = "input", !.score = sc,
                                     !.prob = pr, !.warnings = ws]
    /\ va = NoValidateCall /\ ex = NoExplainCall
    /\ sa = NoScoreCall /\ st = NoStatsCall

\* apply_risk_override(score, prob, warnings)
CallOverride ==
    /\ ov.stage = "input"
    /\ ov' = [ov EXCEPT !.stage = "applied",
                        !.first = apply_risk_override(ov.score, ov.prob,
                                                      ov.warnings)]
    /\ UNCHANGED <<pipeVars, va, ex, sa, st>>

\* apply_risk_override on the score and probability it returned
CallOverrideAgain ==
    /\ ov.stage = "applied"
    /\ ov' = [ov EXCEPT !.stage = "reapplied",
                        !.second = apply_risk_override(ov.first.score,
                                                       ov.first.prob,
                                                       ov.warnings)]
    /\ UNCHANGED <<pipeVars, va, ex, sa, st>>

NextOverride == CallOverride \/ CallOverrideAgain

SpecOverride == InitOverride /\ [][NextOverride]_vars

----------------------------------------------------------------------------
(* validate_applicant called on its own, as the unit tests call it: the
   record is any dict of numbers, not only one the request schema admits *)

VaRecords ==
    [applicant_id : {"app_001"},
     grade_numeric : {0, 1, 7, 8},
     int_rate : {0 - 1, 4, 5, 31, 32},
     inq_last_6mths : {0 - 1, 0},
     revol_util : {100, 101},
     installment : {0 - 1, 350},
     installment_to_income : {7, 40, 41},
     loan_to_income : {30, 90},
     dti : {60, 61},
     open_acc : {8},
     loan_amnt : {0 - 5000, 15000, 25000, 40000, 40001},
     annual_inc : {0 - 5000, 0 - 1, 19999, 20000, 50000},
     credit_history_months : {11, 12}]

InitValidate ==
    /\ InitPipeline
    /\ MODEL_LOADED
    /\ ov = NoOverrideCall /\ ex = NoExplainCall
    /\ sa = NoScoreCall /\ st = NoStatsCall
    /\ \E d \in VaRecords :
         va = [NoValidateCall EXCEPT !.stage = "input", !.data = d]

\* errors, warnings = validate_applicant(data)
CallValidate ==
    /\ va.stage = "input"
    /\ va' = [va EXCEPT !.stage = "called",
                        !.result = validate_applicant(va.data)]
    /\ UNCHANGED <<pipeVars, ov, ex, sa, st>>

NextValidate == CallValidate

SpecValidate == InitValidate /\ [][NextValidate]_vars

----------------------------------------------------------------------------
(* generate_explanation called on its own, as the unit tests call it *)

ExRecords ==
    [applicant_id : {"app_001"},
     grade_numeric : {3, 5},
     int_rate : {13, 14, 20},
     inq_last_6mths : {0, 1, 3},
     revol_util : {25, 30, 70},
     installment : {350},
     installment_to_income : {7},
     loan_to_income : {30},
     dti : {15, 20, 35},
     open_acc : {8},
     loan_amnt : {15000},
     annual_inc : {50000, 60000, 100000},
     credit_history_months : {20, 40, 60, 120}]

RiskLevels == {"Low", "Medium", "High"}

ExMessages == {W_LOAN_TO_INCOME, W_MONTHLY_PAYMENT, W_REVOL_UTIL}

ExWarnings == SeqsUpTo(ExMessages, MaxWarnings)

InitExplain ==
    /\ InitPipeline
    /\ MODEL_LOADED
    /\ ov = NoOverrideCall /\ va = NoValidateCall
    /\ sa = NoScoreCall /\ st = NoStatsCall
    /\ \E d \in ExRecords, level \in RiskLevels, ws \in ExWarnings :
         ex = [NoExplainCall EXCEPT !.stage = "input", !.data = d,
                                    !.level = level, !.warnings = ws]

\* explanation = generate_explanation(data, risk_level, warnings)
CallExplain ==
    /\ ex.stage = "input"
    /\ ex' = [ex EXCEPT !.stage = "called",
                        !.result = generate_explanation(ex.data, ex.level,
                                                        ex.warnings)]
    /\ UNCHANGED <<pipeVars, ov, va, sa, st>>

NextExplain == CallExplain

SpecExplain == InitExplain /\ [][NextExplain]_vars

----------------------------------------------------------------------------
(* get_predictions_stats: four SELECT statements on one connection, each
   reading the rows committed when it runs, while the handlers of the score
   requests run in other workers on the same database file. Every row is
   younger than a day. *)

RowsOfLevel(rows, level) ==
    Cardinality({i \in 1..Len(rows) : rows[i].risk_level = level})

RECURSIVE SumOfScores(_)
SumOfScores(rows) ==
    IF Len(rows) = 0 THEN 0
    ELSE Head(rows).credit_score + SumOfScores(Tail(rows))

\* round(AVG(credit_score), 2) in hundredths, 0 for an empty table
AverageScore(rows) ==
    IF Len(rows) = 0 THEN 0 ELSE RoundDiv(100 * SumOfScores(rows), Len(rows))

InitStats ==
    /\ InitPipeline
    /\ ov = NoOverrideCall /\ va = NoValidateCall /\ ex = NoExplainCall
    /\ sa = NoScoreCall
    /\ st = [NoStatsCall EXCEPT !.pc = "total"]

\* lines 113-114: SELECT COUNT(*)
StatsTotal ==
    /\ st.pc = "total"
    /\ st' = [st EXCEPT !.pc = "by_risk_level",
                        !.total_predictions = Len(db)]
    /\ UNCHANGED <<pipeVars, ov, va, ex, sa>>

\* lines 117-122: SELECT risk_level, COUNT(*) ... GROUP BY risk_level
StatsByRiskLevel ==
    /\ st.pc = "by_risk_level"
    /\ st' = [st EXCEPT !.pc = "avg_credit_score",
                        !.by_risk_level =
                            [Low |-> RowsOfLevel(db, "Low"),
                             Medium |-> RowsOfLevel(db, "Medium"),
                             High |-> RowsOfLevel(db, "High")]]
    /\ UNCHANGED <<pipeVars, ov, va, ex, sa>>

\* lines 125-126: SELECT AVG(credit_score)
StatsAverage ==
    /\ st.pc = "avg_credit_score"
    /\ st' = [st EXCEPT !.pc = "last_24h",
                        !.avg_credit_score = AverageScore(db)]
    /\ UNCHANGED <<pipeVars, ov, va, ex, sa>>

\* lines 129-136: SELECT COUNT(*) ... WHERE created_at > now - 1 day
StatsLast24h ==
    /\ st.pc = "last_24h"
    /\ st' = [st EXCEPT !.pc = "returned", !.last_24h = Len(db)]
    /\ UNCHANGED <<pipeVars, ov, va, ex, sa>>

NextStats ==
    \/ Next
    \/ StatsTotal
    \/ StatsByRiskLevel
    \/ StatsAverage
    \/ StatsLast24h

SpecStats == InitStats /\ [][NextStats]_vars

----------------------------------------------------------------------------
(* score_applicant called on its own, twice on the same dict, the model
   returning the same probability both times *)

ScRecords ==
    [applicant_id : {"app_001"},
     grade_numeric : {3, 5},
     int_rate : {13, 22},
     inq_last_6mths : {0},
     revol_util : {25, 100, 101, 120},
     installment : {350},
     installment_to_income : {7},
     loan_to_income : {30},
     dti : {15},
     open_acc : {8},
     loan_amnt : {15000},
     annual_inc : {50000},
     credit_history_months : {120}]

\* The probabilities (thousandths) predict_proba returns in these calls.
ScProbs == {0, 4, 10, 50, 300, 705, 950, 996, 1000}

InitScore ==
    /\ InitPipeline
    /\ MODEL_LOADED
    /\ ov = NoOverrideCall /\ va = NoValidateCall /\ ex = NoExplainCall
    /\ st = NoStatsCall
    /\ \E d \in ScRecords, p \in ScProbs :
         sa = [NoScoreCall EXCEPT !.stage = "input", !.data = d, !.p = p]

\* credit_score, default_prob = score_applicant(data)
CallScore ==
    /\ sa.stage = "input"
    /\ sa' = [sa EXCEPT !.stage = "called",
                        !.first = score_applicant(sa.data, sa.p, FACTOR,
                                                  OFFSET)]
    /\ UNCHANGED <<pipeVars, ov, va, ex, st>>

\* score_applicant on the same dict, as the first call left it
CallScoreAgain ==
    /\ sa.stage = "called"
    /\ sa' = [sa EXCEPT !.stage = "recalled",
                        !.second = score_applicant(sa.first.data, sa.p,
                                                   FACTOR, OFFSET)]
    /\ UNCHANGED <<pipeVars, ov, va, ex, st>>

NextScore == CallScore \/ CallScoreAgain

SpecScore == InitScore /\ [][NextScore]_vars

----------------------------------------------------------------------------
(* Properties of get_credit_score, checked under Spec *)

Has(seq, x) == \E i \in 1..Len(seq) : seq[i] = x

Count(seq, x) == Cardinality({i \in 1..Len(seq) : seq[i] = x})

IsPrefix(p, q) == Len(p) <= Len(q) /\ \A i \in 1..Len(p) : p[i] = q[i]

SelectFrom(seq, S) == SelectSeq(seq, LAMBDA x : x \in S)

ScoringCalls ==
    {"score_applicant", "apply_risk_override", "generate_explanation",
     "save_prediction"}

NoneOf(seq, S) == \A i \in 1..Len(seq) : seq[i] \notin S

Validated(r) == Has(trace[r], "validate_applicant")

ScorerInvoked(r) == Has(trace[r], "score_applicant")

DecisionProduced(r) ==
    response[r].status = 200 /\ response[r].decision # NoDecision

\* C1: with the model loaded, a request whose validation returns a
\* non-empty errors list is rejected with a 400 that carries the complete
\* list, and score_applicant, apply_risk_override, generate_explanation and
\* save_prediction are never invoked for it.
C1_RejectedWithAllErrors ==
    \A r \in Reqs :
        (MODEL_LOADED /\ Validated(r)
         /\ Len(validate_applicant(request[r]).errors) > 0)
        => /\ pc[r] = "done"
           /\ response[r].status = 400
           /\ response[r].errors = validate_applicant(request[r]).errors
           /\ response[r].decision = NoDecision
           /\ NoneOf(trace[r], ScoringCalls)

C1_Witness ==
    \E r \in Reqs :
        /\ MODEL_LOADED /\ pc[r] = "done"
        /\ response[r].status = 400
        /\ Len(response[r].errors) = 2
        /\ NoneOf(trace[r], ScoringCalls)

\* C2 as stated: in every outcome of every request, also with the model
\* not loaded, "the errors list is non-empty", "the scorer is never
\* invoked" and "no Decision is produced" are equivalent.
C2_AsStated ==
    \A r \in Reqs :
        pc[r] = "done"
        => /\ (Len(validate_applicant(request[r]).errors) > 0)
                <=> ~ScorerInvoked(r)
           /\ ~ScorerInvoked(r) <=> ~DecisionProduced(r)

\* C2 amended: for a request handled with the model loaded, in every
\* outcome, "the errors list is non-empty", "the scorer is never invoked"
\* and "no Decision is produced" are equivalent; for a request arriving
\* while the model is not loaded the scorer is never invoked and no
\* Decision is produced, whatever validation would return.
C2_Equivalence ==
    \A r \in Reqs :
        pc[r] = "done"
        => IF MODEL_LOADED
             THEN /\ (Len(validate_applicant(request[r]).errors) > 0)
                       <=> ~ScorerInvoked(r)
                  /\ Len(errors[r]) > 0 <=> ~ScorerInvoked(r)
                  /\ ~ScorerInvoked(r) <=> ~DecisionProduced(r)
             ELSE ~ScorerInvoked(r) /\ ~DecisionProduced(r)

C2_Witness ==
    \E r1, r2 \in Reqs :
        /\ MODEL_LOADED /\ pc[r1] = "done" /\ pc[r2] = "done"
        /\ Len(errors[r1]) > 0 /\ ~ScorerInvoked(r1) /\ ~DecisionProduced(r1)
        /\ Len(errors[r2]) = 0 /\ ScorerInvoked(r2) /\ DecisionProduced(r2)

\* C3: when MODEL_LOADED is false every score request fails with a 503
\* before validate_applicant is called, and neither scoring, override,
\* explanation nor persistence is attempted.
C3_UnavailableFailsFirst ==
    ~MODEL_LOADED
    => /\ db = <<>>
       /\ \A r \in Reqs :
            pc[r] # "idle"
            => /\ pc[r] = "done"
               /\ response[r].status = 503
               /\ response[r].decision = NoDecision
               /\ ~Validated(r)
               /\ NoneOf(trace[r], ScoringCalls)

C3_Witness ==
    /\ ~MODEL_LOADED
    /\ \A r \in Reqs : pc[r] = "done" /\ response[r].status = 503
    /\ \E r \in Reqs : Len(validate_applicant(request[r]).errors) = 0
    /\ \E r \in Reqs : Len(validate_applicant(request[r]).errors) > 0

\* C4: for a request that passed validation, a failure of save_prediction
\* never surfaces as a failure of the request, and the response (applicant
\* id, score, probability, risk tier, explanation) is the one returned when
\* save_prediction succeeds: two requests with the same body and the same
\* model output get the same response whatever their saves did.
C4_SaveFailureSwallowed ==
    /\ \A r \in Reqs :
         Has(trace[r], "log_error_save")
         => /\ pc[r] \in {"respond", "done"}
            /\ pc[r] = "done"
               => /\ response[r].status = 200
                  /\ response[r].decision.applicant_id
                       = request[r].applicant_id
                  /\ response[r].decision.credit_score = credit_score[r]
                  /\ response[r].decision.default_probability
                       = default_prob[r]
                  /\ response[r].decision.risk_level = risk_level[r]
                  /\ response[r].decision.explanation = explanation[r]
    /\ \A r1, r2 \in Reqs :
         (/\ pc[r1] = "done" /\ pc[r2] = "done"
          /\ ScorerInvoked(r1) /\ ScorerInvoked(r2)
          /\ request[r1] = request[r2] /\ model_out[r1] = model_out[r2])
         => response[r1] = response[r2]

C4_Witness ==
    \E r1, r2 \in Reqs :
        /\ pc[r1] = "done" /\ pc[r2] = "done"
        /\ request[r1] = request[r2] /\ model_out[r1] = model_out[r2]
        /\ Has(trace[r1], "log_error_save")
        /\ Has(trace[r2], "save_prediction")
        /\ ~Has(trace[r2], "log_error_save")
        /\ response[r1].status = 200
        /\ response[r1] = response[r2]

SaveCommitted(r) ==
    Has(trace[r], "save_prediction") /\ ~Has(trace[r], "log_error_save")

\* C5: after any sequence of requests save_prediction has been called
\* exactly once for each request that was scored and returned, never for a
\* request rejected by validation or by model unavailability, and never a
\* second time after a failure; the store holds one row per committed save.
C5_SavedExactlyOnce ==
    /\ \A r \in Reqs :
         /\ Count(trace[r], "save_prediction") <= 1
         /\ Count(trace[r], "log_error_save") <= 1
         /\ (pc[r] = "done" /\ ScorerInvoked(r))
            => Count(trace[r], "save_prediction") = 1
         /\ response[r].status \in {400, 503}
            => Count(trace[r], "save_prediction") = 0
         /\ Has(trace[r], "save_prediction") => ScorerInvoked(r)
    /\ Len(db) = Cardinality({r \in Reqs : SaveCommitted(r)})

C5_Witness ==
    \E r1, r2 \in Reqs :
        /\ pc[r1] = "done" /\ Has(trace[r1], "log_error_save")
        /\ Count(trace[r1], "save_prediction") = 1
        /\ pc[r2] = "done" /\ response[r2].status = 400
        /\ Count(trace[r2], "save_prediction") = 0
        /\ db = <<>>

StepEvents ==
    {"start_time", "validate_applicant", "score_applicant",
     "apply_risk_override", "generate_explanation", "save_prediction",
     "raise", "return"}

\* Received, Validated, Scored, Overridden, Explained, Persisted, Returned
ScoredPath ==
    <<"start_time", "validate_applicant", "score_applicant",
      "apply_risk_override", "generate_explanation", "save_prediction",
      "return">>

\* Received, Validated, Rejected
RejectedPath == <<"start_time", "validate_applicant", "raise">>

\* Received, then the 503 of an unavailable model
UnavailablePath == <<"start_time", "raise">>

\* C6: the steps of a request are taken in the order Received, Validated,
\* then Rejected or Scored, Overridden, Explained, Persisted, Returned, in a
\* single pass: none runs twice or before its predecessor, and Rejected is
\* terminal.
C6_FixedOrder ==
    \A r \in Reqs :
        LET steps == SelectFrom(trace[r], StepEvents) IN
            /\ \/ IsPrefix(steps, ScoredPath)
               \/ IsPrefix(steps, RejectedPath)
               \/ ~MODEL_LOADED /\ IsPrefix(steps, UnavailablePath)
            /\ pc[r] = "done"
               <=> steps \in {ScoredPath, RejectedPath, UnavailablePath}
            /\ pc[r] = "idle" <=> steps = <<>>

C6_Witness ==
    \E r1, r2 \in Reqs :
        /\ pc[r1] = "done"
        /\ SelectFrom(trace[r1], StepEvents) = ScoredPath
        /\ pc[r2] = "done"
        /\ SelectFrom(trace[r2], StepEvents) = RejectedPath

----------------------------------------------------------------------------
(* Properties of apply_risk_override, checked under SpecOverride *)

TriggerMessages ==
    {"Loan-to-income ratio exceeds 50%",
     "Monthly payment exceeds 40% of monthly income",
     "Debt-to-income ratio exceeds 60%",
     "Credit history less than 1 year"}

HasTrigger(ws) == \E i \in 1..Len(ws) : ws[i] \in TriggerMessages

Applied == ov.stage \in {"applied", "reapplied"}

\* C7: with at least one trigger message among the warnings the result is
\* score = min(score, 450) and probability = max(probability, 0.70), so the
\* score is never higher and the probability never lower than the inputs.
C7_TriggeredClamp ==
    (Applied /\ HasTrigger(ov.warnings))
    => /\ ov.first.score = (IF ov.score < 450 THEN ov.score ELSE 450)
       /\ ov.first.prob = (IF ov.prob > 70 THEN ov.prob ELSE 70)
       /\ ov.first.score <= ov.score
       /\ ov.first.prob >= ov.prob

C7_Witness ==
    /\ Applied /\ HasTrigger(ov.warnings)
    /\ ov.score = 400 /\ ov.prob = 80
    /\ ov.first.score = 400 /\ ov.first.prob = 80

\* C8: with an empty warnings list, or one that holds nothing but
\* "Revolving utilization exceeds 100%", the score and the probability are
\* returned unchanged.
C8_NoTriggerUnchanged ==
    (Applied
     /\ \A i \in 1..Len(ov.warnings) :
           ov.warnings[i] = "Revolving utilization exceeds 100%")
    => ov.first.score = ov.score /\ ov.first.prob = ov.prob

C8_Witness ==
    /\ Applied
    /\ ov.warnings = <<"Revolving utilization exceeds 100%">>
    /\ ov.score = 600 /\ ov.prob = 5
    /\ ov.first = [score |-> 600, prob |-> 5, risk_level |-> "Low"]

\* C9: the tier returned is decided by the final score alone: Low iff the
\* final score is at least 580, Medium iff it is in 480..579, High iff it
\* is below 480.
C9_TierFromFinalScore ==
    Applied
    => /\ ov.first.risk_level = "Low" <=> ov.first.score >= 580
       /\ ov.first.risk_level = "Medium"
            <=> (ov.first.score >= 480 /\ ov.first.score < 580)
       /\ ov.first.risk_level = "High" <=> ov.first.score < 480

C9_Witness ==
    /\ Applied /\ HasTrigger(ov.warnings)
    /\ ov.score = 580
    /\ ov.first.score = 450 /\ ov.first.risk_level = "High"

\* C10: applying apply_risk_override to the score and probability it
\* returned, with the same warnings, returns the same score, probability
\* and tier again.
C10_Idempotent ==
    ov.stage = "reapplied" => ov.second = ov.first

C10_Witness ==
    /\ ov.stage = "reapplied" /\ HasTrigger(ov.warnings)
    /\ ov.score = 450 /\ ov.prob = 70
    /\ ov.first.score = 450 /\ ov.first.prob = 70
    /\ ov.second.score = 450 /\ ov.second.prob = 70
    /\ ov.second.risk_level = "High"

\* C11: the result depends only on whether the warnings list holds at least
\* one trigger message: for the same score and probability, every other
\* warnings list that agrees with the given one on holding a trigger gives
\* the same result, whatever the number, order or repetition of warnings.
C11_OnlyTriggerPresence ==
    Applied
    => \A ws2 \in OvWarnings :
          (HasTrigger(ws2) <=> HasTrigger(ov.warnings))
          => apply_risk_override(ov.score, ov.prob, ws2) = ov.first

C11_Witness ==
    /\ Applied
    /\ ov.warnings = <<"Manual review requested",
                       "Debt-to-income ratio exceeds 60%">>
    /\ ov.score = 600 /\ ov.prob = 5
    /\ ov.first = apply_risk_override(600, 5,
                       <<"Credit history less than 1 year",
                         "Credit history less than 1 year">>)
    /\ ov.first = [score |-> 450, prob |-> 70, risk_level |-> "High"]

----------------------------------------------------------------------------
(* Properties of validate_applicant, checked under SpecValidate *)

ValidateCalled == va.stage = "called"

ValidateReturned == ValidateCalled /\ ~va.result.raised

NoNegativeField(d) == \A i \in 1..Len(FieldOrder) : d[FieldOrder[i]] >= 0

\* C12: a record with annual income >= 20000, loan amount <= 40000,
\* interest rate in [5,31], grade in [1,7] and no negative field gets an
\* empty errors list back.
C12_CleanRecordNoErrors ==
    (/\ ValidateCalled
     /\ va.data.annual_inc >= 20000 /\ va.data.loan_amnt <= 40000
     /\ va.data.int_rate >= 5 /\ va.data.int_rate <= 31
     /\ va.data.grade_numeric >= 1 /\ va.data.grade_numeric <= 7
     /\ NoNegativeField(va.data))
    => ValidateReturned /\ va.result.errors = <<>>

C12_Witness ==
    /\ ValidateReturned
    /\ va.data.annual_inc = 20000 /\ va.data.loan_amnt = 40000
    /\ va.data.int_rate = 31 /\ va.data.grade_numeric = 7
    /\ NoNegativeField(va.data)
    /\ va.result.errors = <<>>
    /\ va.result.warnings # <<>>

IncomeError(d) ==
    <<"Income $", FormatThousands(d.annual_inc),
      " below minimum threshold ($20,000)">>

\* the number of hard rules and of negative fields a record violates
ViolationCount(d) ==
    (IF d.annual_inc < 20000 THEN 1 ELSE 0)
    + (IF d.loan_amnt > 40000 THEN 1 ELSE 0)
    + (IF d.int_rate < 5 \/ d.int_rate > 31 THEN 1 ELSE 0)
    + (IF d.grade_numeric < 1 \/ d.grade_numeric > 7 THEN 1 ELSE 0)
    + Cardinality({i \in 1..Len(FieldOrder) : d[FieldOrder[i]] < 0})

\* C13: every hard rule is evaluated: the errors list holds one entry for
\* each violated rule and one "<field> cannot be negative" entry for each
\* negative field, so a negative annual income yields both the income
\* error and the negative-field error.
C13_AllRulesReported ==
    ValidateCalled
    => /\ ~va.result.raised
       /\ Len(va.result.errors) = ViolationCount(va.data)
       /\ va.data.annual_inc < 0
            => /\ Has(va.result.errors, IncomeError(va.data))
               /\ Has(va.result.errors,
                      <<"annual_inc", " cannot be negative">>)

\* C14: the pair (errors, warnings) is returned for every record: a record
\* that breaks a rule is reported in the errors list, never by an exception.
C14_AlwaysReturnsPair ==
    ValidateCalled
    => /\ ~va.result.raised
       /\ ViolationCount(va.data) > 0 => va.result.errors # <<>>

\* the position of a warning in a list, 0 when it is absent
RECURSIVE PositionFrom(_, _, _)
PositionFrom(seq, x, i) ==
    IF i > Len(seq) THEN 0
    ELSE IF seq[i] = x THEN i
    ELSE PositionFrom(seq, x, i + 1)

Before(seq, x, y) ==
    (Has(seq, x) /\ Has(seq, y))
    => PositionFrom(seq, x, 1) < PositionFrom(seq, y, 1)

\* loan amount / (annual income + 1) > 0.5, as a comparison of integers
LoanOverHalfIncome(d) ==
    \/ d.annual_inc + 1 > 0 /\ 2 * d.loan_amnt > d.annual_inc + 1
    \/ d.annual_inc + 1 < 0 /\ 2 * d.loan_amnt < d.annual_inc + 1

\* C15: when the call returns, each warning is present iff its condition
\* holds, whatever the errors and the other warnings are, each at most
\* once, in the order loan-to-income (from loan amount and income, not from
\* the loan_to_income field), installment-to-income > 0.40, dti > 60,
\* credit history < 12 months, revolving utilization > 100.
C15_WarningsIffConditions ==
    ValidateReturned
    => LET d == va.data
           ws == va.result.warnings
       IN /\ Has(ws, W_LOAN_TO_INCOME) <=> LoanOverHalfIncome(d)
          /\ Has(ws, W_MONTHLY_PAYMENT) <=> d.installment_to_income > 40
          /\ Has(ws, W_DTI) <=> d.dti > 60
          /\ Has(ws, W_CREDIT_HISTORY) <=> d.credit_history_months < 12
          /\ Has(ws, W_REVOL_UTIL) <=> d.revol_util > 100
          /\ \A i \in 1..Len(ws) : Count(ws, ws[i]) = 1
          /\ Before(ws, W_LOAN_TO_INCOME, W_MONTHLY_PAYMENT)
          /\ Before(ws, W_MONTHLY_PAYMENT, W_DTI)
          /\ Before(ws, W_DTI, W_CREDIT_HISTORY)
          /\ Before(ws, W_CREDIT_HISTORY, W_REVOL_UTIL)
          /\ Before(ws, W_LOAN_TO_INCOME, W_DTI)
          /\ Before(ws, W_LOAN_TO_INCOME, W_CREDIT_HISTORY)
          /\ Before(ws, W_LOAN_TO_INCOME, W_REVOL_UTIL)
          /\ Before(ws, W_MONTHLY_PAYMENT, W_CREDIT_HISTORY)
          /\ Before(ws, W_MONTHLY_PAYMENT, W_REVOL_UTIL)
          /\ Before(ws, W_DTI, W_REVOL_UTIL)

C15_Witness ==
    /\ ValidateReturned
    /\ va.data.loan_to_income = 30
    /\ va.data.annual_inc = 0 - 5000 /\ va.data.loan_amnt = 0 - 5000
    /\ va.result.errors # <<>>
    /\ va.result.warnings =
         <<W_LOAN_TO_INCOME, W_MONTHLY_PAYMENT, W_DTI, W_CREDIT_HISTORY,
           W_REVOL_UTIL>>

----------------------------------------------------------------------------
(* Properties of generate_explanation, checked under SpecExplain *)

Explained == ex.stage = "called"

\* some positive factor of the record matches
AnyPositive(d) ==
    \/ d.credit_history_months >= 60 \/ d.int_rate < 14 \/ d.dti < 20
    \/ d.revol_util < 30 \/ d.inq_last_6mths = 0 \/ d.annual_inc >= 60000

\* the number of negative factors of the record that match
DataNegativeCount(d) ==
    (IF d.int_rate >= 20 THEN 1 ELSE 0)
    + (IF d.revol_util >= 70 THEN 1 ELSE 0)
    + (IF d.dti >= 35 THEN 1 ELSE 0)
    + (IF d.inq_last_6mths >= 3 THEN 1 ELSE 0)
    + (IF d.credit_history_months < 36 THEN 1 ELSE 0)
    + (IF d.grade_numeric >= 5 THEN 1 ELSE 0)

PhraseWarnings ==
    {"Loan-to-income ratio exceeds 50%",
     "Monthly payment exceeds 40% of monthly income"}

AnyNegative(d, ws) ==
    DataNegativeCount(d) > 0 \/ \E i \in 1..Len(ws) : ws[i] \in PhraseWarnings

\* C17: the explanation is not empty, starts with the lead fragment of the
\* tier and ends with exactly one period; with no positive and no negative
\* factor it is the lead fragment followed by the period.
C17_LeadAndPeriod ==
    Explained
    => /\ Len(ex.result) > 0
       /\ ex.level = "Low" => ex.result[1] = "Low default risk"
       /\ ex.level = "Medium" => ex.result[1] = "Moderate default risk"
       /\ ex.level = "High" => ex.result[1] = "High default risk"
       /\ ex.result[Len(ex.result)] = "."
       /\ Count(ex.result, ".") = 1
       /\ (~AnyPositive(ex.data) /\ ~AnyNegative(ex.data, ex.warnings))
            => Len(ex.result) = 2

C17_Witness ==
    /\ Explained
    /\ ~AnyPositive(ex.data) /\ ~AnyNegative(ex.data, ex.warnings)
    /\ ex.warnings = <<"Revolving utilization exceeds 100%">>
    /\ ex.level = "Medium"
    /\ ex.result = <<"Moderate default risk", ".">>

PositivePhrases ==
    {"long credit history", "established credit history",
     "favorable interest rate", "low debt-to-income ratio",
     "low credit utilization", "no recent credit inquiries",
     "strong income", "stable income"}

NegativePhrases ==
    {"high interest rate indicates elevated risk profile",
     "high credit utilization", "elevated debt burden",
     "multiple recent credit inquiries", "limited credit history",
     "subprime credit grade", "loan amount high relative to income",
     "monthly payment burden is significant"}

\* the cap on the negatives: 2 after positives, 3 without them
NegativeCap(d) == IF AnyPositive(d) THEN 2 ELSE 3

\* C18: at most the first 3 matching positives, in evaluation order,
\* follow "due to"; with positives the negatives follow "however," and at
\* most the first 2 are kept; without positives the negatives follow
\* "due to" and at most the first 3 are kept; the fragments are joined
\* by "; ".
C18_AsymmetricTruncation ==
    Explained
    => LET out == ex.result
           pos == Positives(ex.data)
           neg == Negatives(ex.data, ex.warnings)
           clauses == (IF pos # <<>> THEN 1 ELSE 0)
                      + (IF neg # <<>> THEN 1 ELSE 0)
       IN /\ SelectFrom(out, PositivePhrases) = Take(pos, 3)
          /\ SelectFrom(out, NegativePhrases)
               = Take(neg, NegativeCap(ex.data))
          /\ Has(out, "however, ") <=> (pos # <<>> /\ neg # <<>>)
          /\ Count(out, "due to ") = (IF clauses > 0 THEN 1 ELSE 0)
          /\ Count(out, "; ") = clauses
          /\ \A i \in 1..Len(out) :
                out[i] \in {"due to ", "however, "}
                => i > 1 /\ out[i - 1] = "; "
          /\ \A i \in 1..Len(out) :
                (out[i] \in NegativePhrases /\ pos # <<>>)
                => PositionFrom(out, "however, ", 1) \in 1..(i - 1)
          /\ \A i \in 1..Len(out) :
                out[i] \in PositivePhrases
                => /\ PositionFrom(out, "due to ", 1) \in 1..(i - 1)
                   /\ Has(out, "however, ")
                        => i < PositionFrom(out, "however, ", 1)

C18_Witness ==
    /\ Explained
    /\ Len(Positives(ex.data)) > 3
    /\ Len(Negatives(ex.data, ex.warnings)) > 2
    /\ ex.level = "High"
    /\ ex.result =
         <<"High default risk", "; ",
           "due to ", "long credit history", ", ",
           "favorable interest rate", ", ", "low debt-to-income ratio", "; ",
           "however, ", "high credit utilization", ", ",
           "multiple recent credit inquiries", ".">>

\* the phrase of warning w is among the negatives kept: fewer negatives
\* than the cap come before it
PhraseKept(d, ws, w) ==
    \E i \in 1..Len(ws) :
        /\ ws[i] = w
        /\ DataNegativeCount(d)
             + Cardinality({j \in 1..(i - 1) : ws[j] \in PhraseWarnings})
           < NegativeCap(d)

\* C19 as stated: with the loan-to-income warning in the list the
\* explanation contains "loan amount high relative to income", and with the
\* monthly-payment warning it contains "monthly payment burden is
\* significant", whatever the record and the tier.
C19_AsStated ==
    Explained
    => /\ Has(ex.warnings, "Loan-to-income ratio exceeds 50%")
            => Has(ex.result, "loan amount high relative to income")
       /\ Has(ex.warnings, "Monthly payment exceeds 40% of monthly income")
            => Has(ex.result, "monthly payment burden is significant")

\* C19: the phrase of a warning is in the explanation exactly when fewer
\* negatives than the cap (2 after positives, 3 without) come before it,
\* the negatives of the record first and then the phrases of the earlier
\* warnings.
C19_PhraseWithinCap ==
    Explained
    => /\ Has(ex.result, "loan amount high relative to income")
            <=> PhraseKept(ex.data, ex.warnings,
                           "Loan-to-income ratio exceeds 50%")
       /\ Has(ex.result, "monthly payment burden is significant")
            <=> PhraseKept(ex.data, ex.warnings,
                           "Monthly payment exceeds 40% of monthly income")

C19_Witness ==
    /\ Explained
    /\ AnyPositive(ex.data) /\ DataNegativeCount(ex.data) = 1
    /\ ex.warnings = <<"Loan-to-income ratio exceeds 50%",
                       "Monthly payment exceeds 40% of monthly income">>
    /\ Has(ex.result, "loan amount high relative to income")
    /\ ~Has(ex.result, "monthly payment burden is significant")

----------------------------------------------------------------------------
(* Properties of get_credit_score over the wider requests, checked under
   SpecWide *)

\* one of the four trigger conditions holds of the record
TriggerCondition(d) ==
    \/ LoanOverHalfIncome(d)
    \/ d.installment_to_income > 40
    \/ d.dti > 60
    \/ d.credit_history_months < 12

\* C16: a scored request whose data satisfies one of the four trigger
\* conditions is answered with credit score <= 450, default probability
\* >= 0.70 and tier High, whatever the model returned; a scored request
\* that satisfies none is answered with the score and the probability of
\* the scorer.
C16_DecisionHonoursOverride ==
    \A r \in Reqs :
        DecisionProduced(r)
        => LET dec == response[r].decision IN
             IF TriggerCondition(request[r])
               THEN /\ dec.credit_score <= 450
                    /\ dec.default_probability >= 70
                    /\ dec.risk_level = "High"
               ELSE /\ dec.credit_score
                         = ScoreOf(model_out[r], FACTOR, OFFSET)
                    /\ dec.default_probability = RoundDiv(model_out[r], 10)

C16_Witness ==
    /\ DecisionProduced(1)
    /\ request[1].credit_history_months = 6
    /\ ~LoanOverHalfIncome(request[1])
    /\ request[1].installment_to_income = 7 /\ request[1].dti = 15
    /\ model_out[1] = 50
    /\ ScoreOf(model_out[1], FACTOR, OFFSET) = 572
    /\ response[1].decision.credit_score = 450
    /\ response[1].decision.default_probability = 70
    /\ response[1].decision.risk_level = "High"

\* C20: the applicant record is never changed by the pipeline: the record
\* the handler works on, the input it logs and the input it hands to
\* save_prediction are the raw values of the request, a revolving
\* utilization above 100 included.
C20_RecordImmutable ==
    /\ \A r \in Reqs : Has(trace[r], "model_dump") => data[r] = request[r]
    /\ \A i \in 1..Len(db) : \E r \in Reqs : db[i].input = request[r]

----------------------------------------------------------------------------
(* Further properties of validate_applicant, checked under SpecValidate *)

\* the number of hard rules a record violates
HardRuleCount(d) ==
    (IF d.annual_inc < 20000 THEN 1 ELSE 0)
    + (IF d.loan_amnt > 40000 THEN 1 ELSE 0)
    + (IF d.int_rate < 5 \/ d.int_rate > 31 THEN 1 ELSE 0)
    + (IF d.grade_numeric < 1 \/ d.grade_numeric > 7 THEN 1 ELSE 0)

\* C21: a record that violates exactly one of the four hard rules and has
\* no negative field gets an errors list of exactly one entry, the one of
\* the violated rule: "below minimum threshold" and "$20,000" for the
\* income, "exceeds maximum" and "$40,000" for the loan.
C21_SingleRuleSingleError ==
    (ValidateCalled /\ HardRuleCount(va.data) = 1
     /\ NoNegativeField(va.data))
    => /\ ValidateReturned
       /\ Len(va.result.errors) = 1
       /\ LET e == va.result.errors[1] IN
            /\ va.data.annual_inc < 20000
                 => /\ e[1] = "Income $"
                    /\ e[3] = " below minimum threshold ($20,000)"
            /\ va.data.loan_amnt > 40000
                 => /\ e[1] = "Loan amount $"
                    /\ e[3] = " exceeds maximum ($40,000)"
            /\ (va.data.int_rate < 5 \/ va.data.int_rate > 31)
                 => /\ e[1] = "Interest rate "
                    /\ e[3] = "% outside valid range (5-31%)"
            /\ (va.data.grade_numeric < 1 \/ va.data.grade_numeric > 7)
                 => /\ e[1] = "Grade "
                    /\ e[3] = " invalid (must be 1-7)"

C21_Witness ==
    /\ ValidateReturned
    /\ va.data.loan_amnt = 40001 /\ va.data.annual_inc = 50000
    /\ va.data.int_rate = 5 /\ va.data.grade_numeric = 1
    /\ NoNegativeField(va.data)
    /\ va.result.errors =
         << <<"Loan amount $", "40,001", " exceeds maximum ($40,000)">> >>

----------------------------------------------------------------------------
(* Further properties of generate_explanation, checked under SpecExplain *)

\* C22 as stated: with dti >= 35 the explanation contains "elevated debt
\* burden", and with grade >= 5 it contains "subprime credit grade",
\* whatever the record, the tier and the warnings.
C22_AsStated ==
    Explained
    => /\ ex.data.dti >= 35 => Has(ex.result, "elevated debt burden")
       /\ ex.data.grade_numeric >= 5
            => Has(ex.result, "subprime credit grade")

\* the negative factors of the record evaluated before the dti
NegativesBeforeDti(d) ==
    (IF d.int_rate >= 20 THEN 1 ELSE 0)
    + (IF d.revol_util >= 70 THEN 1 ELSE 0)

\* the negative factors of the record evaluated before the grade
NegativesBeforeGrade(d) ==
    NegativesBeforeDti(d)
    + (IF d.dti >= 35 THEN 1 ELSE 0)
    + (IF d.inq_last_6mths >= 3 THEN 1 ELSE 0)
    + (IF d.credit_history_months < 36 THEN 1 ELSE 0)

\* C22: "elevated debt burden" is in the explanation exactly when
\* dti >= 35 and fewer negatives than the cap (2 after positives, 3
\* without) are evaluated before it, and "subprime credit grade" exactly
\* when grade >= 5 and fewer negatives than the cap are evaluated before it.
C22_FactorWithinCap ==
    Explained
    => /\ Has(ex.result, "elevated debt burden")
            <=> (/\ ex.data.dti >= 35
                 /\ NegativesBeforeDti(ex.data) < NegativeCap(ex.data))
       /\ Has(ex.result, "subprime credit grade")
            <=> (/\ ex.data.grade_numeric >= 5
                 /\ NegativesBeforeGrade(ex.data) < NegativeCap(ex.data))

C22_Witness ==
    /\ Explained
    /\ AnyPositive(ex.data)
    /\ ex.data.dti = 35 /\ ex.data.grade_numeric = 5
    /\ ex.data.int_rate = 20 /\ ex.data.revol_util = 25
    /\ Has(ex.result, "elevated debt burden")
    /\ ~Has(ex.result, "subprime credit grade")

----------------------------------------------------------------------------
(* Further properties of get_credit_score, checked under SpecWide *)

\* the request breaks no hard rule
PassesHardRules(d) ==
    /\ d.annual_inc >= 20000 /\ d.loan_amnt <= 40000
    /\ d.int_rate >= 5 /\ d.int_rate <= 31
    /\ d.grade_numeric >= 1 /\ d.grade_numeric <= 7

\* C23: a request with revolving utilization above 100 that is otherwise
\* valid is scored, not rejected: the warnings hold "Revolving utilization
\* exceeds 100%", the scorer works on the utilization capped at 100, and
\* without a trigger warning the returned score and probability are those
\* the scorer computes for utilization = 100.
C23_OverUtilizationScored ==
    \A r \in Reqs :
        (MODEL_LOADED /\ request[r].revol_util > 100
         /\ PassesHardRules(request[r]))
        => LET capped == [request[r] EXCEPT !.revol_util = 100] IN
             /\ Validated(r)
                  => /\ errors[r] = <<>>
                     /\ Has(warnings[r], "Revolving utilization exceeds 100%")
                     /\ response[r].status \in {0, 200}
             /\ ScorerInvoked(r) => data[r] = capped
             /\ pc[r] = "done"
                  => /\ DecisionProduced(r)
                     /\ ~TriggerCondition(request[r])
                          => LET s == score_applicant(capped, model_out[r],
                                                      FACTOR, OFFSET) IN
                               /\ response[r].decision.credit_score = s.score
                               /\ response[r].decision.default_probability
                                    = s.prob

C23_Witness ==
    /\ pc[1] = "done" /\ DecisionProduced(1)
    /\ request[1].revol_util = 120 /\ PassesHardRules(request[1])
    /\ ~TriggerCondition(request[1])
    /\ data[1].revol_util = 100
    /\ model_out[1] = 705 /\ FACTOR = 29 /\ OFFSET = 487
    /\ response[1].decision.credit_score = 462
    /\ response[1].decision.default_probability = 70

----------------------------------------------------------------------------
(* Properties of score_applicant, checked under SpecScore *)

ScoreCalled == sa.stage \in {"called", "recalled"}

\* C24: the score is the offset when the model probability is exactly 0
\* or exactly 1, and otherwise offset - factor * ln(p / (1 - p)) of the
\* unrounded probability, rounded; the probability returned is the model
\* probability rounded to 2 decimals; the same inputs give the same pair.
C24_ScoreFormula ==
    ScoreCalled
    => /\ sa.p \in {0, 1000} => sa.first.score = OFFSET
       /\ sa.p \notin {0, 1000}
            => sa.first.score
                 = RoundDiv(OFFSET * 1000 - FACTOR * LogOddsMilli(sa.p), 1000)
       /\ sa.first.prob = RoundDiv(sa.p, 10)
       /\ sa.stage = "recalled"
            => /\ sa.second.score = sa.first.score
               /\ sa.second.prob = sa.first.prob

C24_Witness ==
    /\ sa.stage = "recalled"
    /\ sa.p = 4 /\ FACTOR = 29 /\ OFFSET = 487
    /\ sa.first.score = 647 /\ sa.first.prob = 0
    /\ sa.second.score = 647 /\ sa.second.prob = 0

----------------------------------------------------------------------------
(* Further properties of get_credit_score, checked under Spec *)

\* the record of request r, from the locals of its handler
RecordOf(r) ==
    [applicant_id |-> request[r].applicant_id,
     credit_score |-> credit_score[r],
     default_probability |-> default_prob[r],
     risk_level |-> risk_level[r],
     explanation |-> explanation[r],
     input |-> data[r]]

\* C25: under every interleaving of score requests, the store holds exactly
\* one complete record per request whose save was committed: none is lost,
\* none is there twice, none carries a field of another request.
C25_OneCompleteRecordEach ==
    /\ \A r \in Reqs : SaveCommitted(r) => Has(db, RecordOf(r))
    /\ \A i \in 1..Len(db) :
         Count(db, db[i])
           = Cardinality({r \in Reqs :
                            SaveCommitted(r) /\ RecordOf(r) = db[i]})

C25_Witness ==
    /\ SaveCommitted(1) /\ SaveCommitted(2)
    /\ pc[1] = "done" /\ pc[2] = "respond"
    /\ credit_score[1] # credit_score[2]
    /\ request[1].applicant_id # request[2].applicant_id
    /\ db = <<RecordOf(2), RecordOf(1)>>

\* the events of a trace before the first occurrence of x
Until(seq, x) == Take(seq, PositionFrom(seq, x, 1) - 1)

\* C26 as stated: the response time is taken after every step of the
\* request, the persistence call included, has finished.
C26_AsStated ==
    \A r \in Reqs :
        Has(trace[r], "response_time")
        => /\ Has(Until(trace[r], "response_time"), "generate_explanation")
           /\ Has(Until(trace[r], "response_time"), "save_prediction")

\* C26: the response time is taken once, after validation, scoring,
\* override and explanation have finished and before the prediction is
\* logged and save_prediction is called; every returned decision has one.
C26_MeasuredBeforePersist ==
    \A r \in Reqs :
        /\ Count(trace[r], "response_time") <= 1
        /\ Has(trace[r], "response_time")
             => LET before == Until(trace[r], "response_time") IN
                  /\ Has(before, "start_time")
                  /\ Has(before, "validate_applicant")
                  /\ Has(before, "score_applicant")
                  /\ Has(before, "apply_risk_override")
                  /\ Has(before, "generate_explanation")
                  /\ ~Has(before, "log_prediction")
                  /\ ~Has(before, "save_prediction")
        /\ (Has(trace[r], "save_prediction") \/ Has(trace[r], "return"))
             => Has(trace[r], "response_time")

C26_Witness ==
    /\ pc[1] = "done" /\ DecisionProduced(1)
    /\ trace[1] = <<"start_time", "model_dump", "validate_applicant",
                    "score_applicant", "apply_risk_override",
                    "generate_explanation", "response_time",
                    "log_prediction", "save_prediction", "return">>

----------------------------------------------------------------------------
(* Properties of the decision and its record, checked under SpecWide *)

\* C27: when the override is triggered by the validator's warnings on the
\* data of the request, the explanation starts with "High default risk"
\* and names at least one negative factor, after "however," or after
\* "due to": it is never the lead alone or the lead with positives only.
C27_OverrideExplained ==
    \A r \in Reqs :
        (DecisionProduced(r) /\ HasTrigger(warnings[r]))
        => LET out == response[r].decision.explanation IN
             /\ out[1] = "High default risk"
             /\ \E i \in 1..Len(out) : out[i] \in NegativePhrases
             /\ Has(out, "however, ")
                \/ (Has(out, "due to ")
                    /\ \A i \in 1..Len(out) : out[i] \notin PositivePhrases)

C27_Witness ==
    /\ DecisionProduced(1)
    /\ warnings[1] = <<"Loan-to-income ratio exceeds 50%">>
    /\ request[1].grade_numeric = 3 /\ request[1].int_rate = 13
    /\ request[1].inq_last_6mths = 0 /\ request[1].revol_util = 25
    /\ model_out[1] = 50
    /\ response[1].decision.explanation =
         <<"High default risk", "; ",
           "due to ", "long credit history", ", ",
           "favorable interest rate", ", ", "low debt-to-income ratio", "; ",
           "however, ", "loan amount high relative to income", ".">>

\* C28: the record appended for a scored request whose save succeeds has
\* the applicant id, credit score, default probability, risk tier and
\* explanation of the decision returned to the caller, and the applicant
\* id of the response is the one of the request.
C28_RecordMatchesDecision ==
    \A r \in Reqs :
        DecisionProduced(r)
        => LET dec == response[r].decision IN
             /\ dec.applicant_id = request[r].applicant_id
             /\ SaveCommitted(r)
                  => \E i \in 1..Len(db) :
                        /\ db[i].applicant_id = dec.applicant_id
                        /\ db[i].credit_score = dec.credit_score
                        /\ db[i].default_probability
                             = dec.default_probability
                        /\ db[i].risk_level = dec.risk_level
                        /\ db[i].explanation = dec.explanation

C28_Witness ==
    /\ DecisionProduced(1) /\ SaveCommitted(1)
    /\ HasTrigger(warnings[1])
    /\ model_out[1] = 50
    /\ Len(db) = 1
    /\ db[1].credit_score = 450
    /\ db[1].default_probability = 70
    /\ db[1].risk_level = "High"
    /\ db[1].applicant_id = "app_002"
    /\ response[1].decision.credit_score = 450
    /\ response[1].decision.applicant_id = "app_002"

----------------------------------------------------------------------------
(* Independence of the requests, checked under Spec *)

\* the twelve numeric fields of two records agree
SameNumbers(d1, d2) ==
    \A i \in 1..Len(FieldOrder) : d1[FieldOrder[i]] = d2[FieldOrder[i]]

\* C29: two requests with the same twelve numeric fields get the same
\* outcome, whatever their applicant ids, the order in which they are
\* processed and the requests handled before, the model returning the same
\* probability for the same features: the same error list, or the same
\* score, probability, risk tier and explanation.
C29_OutcomeIndependent ==
    \A r1, r2 \in Reqs :
        (/\ pc[r1] = "done" /\ pc[r2] = "done"
         /\ SameNumbers(request[r1], request[r2])
         /\ model_out[r1] = model_out[r2])
        => /\ response[r1].status = response[r2].status
           /\ response[r1].errors = response[r2].errors
           /\ response[r1].decision.credit_score
                = response[r2].decision.credit_score
           /\ response[r1].decision.default_probability
                = response[r2].decision.default_probability
           /\ response[r1].decision.risk_level
                = response[r2].decision.risk_level
           /\ response[r1].decision.explanation
                = response[r2].decision.explanation

C29_Witness ==
    /\ pc[1] = "done" /\ pc[2] = "done"
    /\ request[1].applicant_id = "app_001"
    /\ request[2].applicant_id = "app_002"
    /\ SameNumbers(request[1], request[2])
    /\ model_out[1] = 705 /\ model_out[2] = 705
    /\ DecisionProduced(1) /\ DecisionProduced(2)
    /\ Len(db) = 1 /\ db[1].applicant_id = "app_002"
    /\ response[1].decision.credit_score
         = response[2].decision.credit_score

----------------------------------------------------------------------------
(* Properties of get_predictions_stats, checked under SpecStats *)

\* C30: the statistics returned are a snapshot of the store at one point
\* in time, also when rows are committed during the read: the total is the
\* sum of the counts by risk level, the count of the last 24 hours is at
\* most the total, and the total is the number of rows of that snapshot.
C30_ConsistentSnapshot ==
    st.pc = "returned"
    => /\ st.total_predictions
            = st.by_risk_level.Low + st.by_risk_level.Medium
              + st.by_risk_level.High
       /\ st.last_24h <= st.total_predictions
       /\ \E n \in 0..Len(db) :
            /\ st.total_predictions = n
            /\ st.last_24h = n
            /\ st.avg_credit_score = AverageScore(Take(db, n))

====
